---- MODULE Spec2Model ----
(***************************************************************************)
(* The TestFlight notifier bot (bot.py): the background poll loop          *)
(* check_links_and_notify, the on_ready event that starts it, and the      *)
(* notify / test-mode / stop commands that change the two subscriber sets. *)
(*                                                                         *)
(* Everything runs on one asyncio event loop, so the code between two      *)
(* awaits is one atomic step.  The poll loop suspends at                   *)
(* bot.fetch_user, user.send and asyncio.sleep; a command handler suspends *)
(* at its final ctx.send.  requests.get is a blocking call: it does not    *)
(* suspend, it holds the event loop until it returns (if it returns).      *)
(***************************************************************************)
EXTENDS Naturals, Sequences, FiniteSets

\* ------------------------------------------------------------------ bounds
NumUsers == 2      \* discord user ids that talk to the bot
NumTargets == 2    \* how many entries of TESTFLIGHT_LINKS the model polls
MaxReady == 2      \* how many times the ready event fires

Users == 1 .. NumUsers
Tasks == 1 .. MaxReady

\* --------------------------------------------------------------- registry
GroupNames == <<"Group A", "Group B", "Group C", "Group D", "Group E">>

TESTFLIGHT_LINKS == SubSeq(GroupNames, 1, NumTargets)

\* What one requests.get + raise_for_status can do: the body holds FULL_TEXT,
\* the body does not hold it, a RequestException is raised, or the call
\* never returns (no timeout is passed).
FetchOutcomes == {"full", "open", "fail", "hang"}

\* What an awaited discord call can do.
FetchUserOutcomes == {"user", "none", "forbidden", "error"}
SendOutcomes == {"ok", "forbidden", "error"}

\* A message on its way: whom it is for, the tier the pass found for that id
\* (bot.py 90), its header and its status lines.
Msg(id, tier, header, lines) ==
    [id |-> id, tier |-> tier, header |-> header, lines |-> lines]

NoMsg == Msg(0, "unknown", "none", <<>>)

\* No command handled yet.
NoCommand == [author |-> 0, command |-> "none", reply |-> "none"]

VARIABLES
    subscribed_users,      \* set of user ids
    test_mode_users,       \* set of user ids
    closed,                \* bot.is_closed()
    ready,                 \* number of on_ready events so far = tasks created
    pc,                    \* per task: where check_links_and_notify is suspended
    fetched,               \* per task: the outcome of each requests.get of the cycle
    all_status_messages,   \* per task: local of the cycle
    slot_available_links,  \* per task: local of the cycle
    snapshot,              \* per task: list(subscribed_users) of the cycle
    idx,                   \* per task: position of the for loop in snapshot
    previous,              \* per task: slot_available_links before bot.py 58
                           \* emptied it, the links of the cycle before
    sending,               \* per task: the message user.send is delivering
    log,                   \* per task: what the pass did for each id so far
    replied,               \* the command handled last and the reply it sent
    left                   \* per user: how the user last left the store

vars == <<subscribed_users, test_mode_users, closed, ready, pc, fetched,
          all_status_messages, slot_available_links, previous, snapshot, idx,
          sending, log, replied, left>>

store == <<subscribed_users, test_mode_users>>
cycleVars == <<pc, fetched, all_status_messages, slot_available_links,
               snapshot, idx, sending, log>>

\* ---------------------------------------------------------------- helpers
Range(s) == {s[i] : i \in 1 .. Len(s)}

\* list(a_set): every id once, in an order the set decides.
ListOf(S) == {s \in [1 .. Cardinality(S) -> S] : Range(s) = S}

\* The event loop's thread is inside a task: in a requests.get that does not
\* return ("hung"), or between the end of the for loop and the call of
\* asyncio.sleep ("over").  Nothing else runs until the task suspends.
Blocked == \E t \in Tasks : pc[t] \in {"hung", "over"}

\* bot.py 68-77: the status line of one target.
StatusLine(name, outcome) ==
    IF outcome = "fail" THEN <<"CouldNot", name>>
    ELSE IF outcome = "full" THEN <<"Full", name>>
    ELSE <<"Slot", name>>

\* bot.py 60-77: the for loop over TESTFLIGHT_LINKS, up to the first call
\* that never returns.  Answers how many targets were evaluated.
RECURSIVE Evaluated(_, _)
Evaluated(outcomes, i) ==
    IF i > Len(TESTFLIGHT_LINKS) THEN i - 1
    ELSE IF outcomes[i] = "hang" THEN i - 1
    ELSE Evaluated(outcomes, i + 1)

\* AllStatus without the append of bot.py 77: a target whose fetch failed
\* leaves no line.
RECURSIVE AllStatusSkipsFailed(_, _)
AllStatusSkipsFailed(outcomes, n) ==
    IF n = 0 THEN <<>>
    ELSE IF outcomes[n] = "fail" THEN AllStatusSkipsFailed(outcomes, n - 1)
    ELSE Append(AllStatusSkipsFailed(outcomes, n - 1),
                StatusLine(TESTFLIGHT_LINKS[n], outcomes[n]))

\* bot.py 73, 77: all_status_messages after the first n targets.
RECURSIVE AllStatus(_, _)
AllStatus(outcomes, n) ==
    IF n = 0 THEN <<>>
    ELSE Append(AllStatus(outcomes, n - 1),
                StatusLine(TESTFLIGHT_LINKS[n], outcomes[n]))

\* SlotLinks with the append of bot.py 72 reached by a failed fetch too: a
\* target that could not be checked counts as a slot.
RECURSIVE SlotLinksCountsFailed(_, _)
SlotLinksCountsFailed(outcomes, n) ==
    IF n = 0 THEN <<>>
    ELSE IF outcomes[n] \in {"open", "fail"}
         THEN Append(SlotLinksCountsFailed(outcomes, n - 1),
                     StatusLine(TESTFLIGHT_LINKS[n], outcomes[n]))
         ELSE SlotLinksCountsFailed(outcomes, n - 1)

\* bot.py 70-72: slot_available_links after the first n targets.
RECURSIVE SlotLinks(_, _)
SlotLinks(outcomes, n) ==
    IF n = 0 THEN <<>>
    ELSE IF outcomes[n] = "open"
         THEN Append(SlotLinks(outcomes, n - 1),
                     StatusLine(TESTFLIGHT_LINKS[n], outcomes[n]))
         ELSE SlotLinks(outcomes, n - 1)

\* bot.py 81
slot_found(t) == Len(slot_available_links[t]) > 0

\* bot.py 90: the tier of user_id when its turn comes.
TierOf(user_id) == IF user_id \in test_mode_users THEN "VERBOSE" ELSE "NORMAL"

\* bot.py 80, 91
full_update_message(t, user_id) ==
    Msg(user_id, TierOf(user_id), "TestModeStatusUpdate", all_status_messages[t])

\* slot_notification that joins all_status_messages instead of
\* slot_available_links.
slot_notificationSendsAll(t, user_id) ==
    Msg(user_id, TierOf(user_id), "SlotAvailable", all_status_messages[t])

\* bot.py 94-95
slot_notification(t, user_id) ==
    Msg(user_id, TierOf(user_id), "SlotAvailable", slot_available_links[t])

\* MessageFor with the elif of bot.py 93 turned into an else: a NORMAL id is
\* sent the slot notification in every cycle.
MessageForAlwaysSlot(t, user_id) ==
    IF user_id \in test_mode_users THEN full_update_message(t, user_id)
    ELSE slot_notification(t, user_id)

\* MessageFor with the test of slot_found put in front of both branches: a
\* VERBOSE id is sent its digest only in a cycle that found a slot.
MessageForDigestNeedsSlot(t, user_id) ==
    IF ~slot_found(t) THEN Msg(user_id, TierOf(user_id), "none", <<>>)
    ELSE IF user_id \in test_mode_users THEN full_update_message(t, user_id)
    ELSE slot_notification(t, user_id)

\* MessageFor that remembers the cycle before: a NORMAL id is sent the slot
\* notification only when a link is there that was not there before.
MessageForOnlyNewSlots(t, user_id) ==
    IF user_id \in test_mode_users THEN full_update_message(t, user_id)
    ELSE IF Range(slot_available_links[t]) \ Range(previous[t]) # {}
    THEN slot_notification(t, user_id)
    ELSE Msg(user_id, TierOf(user_id), "none", <<>>)

\* bot.py 89-95: the message the pass sends to user_id; header "none" when
\* it sends none.
MessageFor(t, user_id) ==
    IF user_id \in test_mode_users THEN full_update_message(t, user_id)
    ELSE IF slot_found(t) THEN slot_notification(t, user_id)
    ELSE Msg(user_id, TierOf(user_id), "none", <<>>)

\* Handle without bot.py 100: Forbidden leaves the id in test_mode_users.
HandleKeepsTestMode(outcome, user_id) ==
    IF outcome = "forbidden"
    THEN /\ subscribed_users' = subscribed_users \ {user_id}
         /\ test_mode_users' = test_mode_users
         /\ left' = IF user_id \in subscribed_users
                    THEN [left EXCEPT ![user_id] = "forbidden"]
                    ELSE left
    ELSE UNCHANGED <<subscribed_users, test_mode_users, left>>

\* Handle with the removal of bot.py 99-100 in the except Exception clause
\* too: any failure unsubscribes the id.
HandleRemovesOnError(outcome, user_id) ==
    IF outcome \in {"forbidden", "error"}
    THEN /\ subscribed_users' = subscribed_users \ {user_id}
         /\ test_mode_users' = test_mode_users \ {user_id}
         /\ left' = IF user_id \in subscribed_users
                    THEN [left EXCEPT ![user_id] = "forbidden"]
                    ELSE left
    ELSE UNCHANGED <<subscribed_users, test_mode_users, left>>

\* Handle that takes test mode from an id whose delivery failed with another
\* error, so that it is not tried in every cycle.
HandleDropsTierOnError(outcome, user_id) ==
    IF outcome = "forbidden"
    THEN /\ subscribed_users' = subscribed_users \ {user_id}
         /\ test_mode_users' = test_mode_users \ {user_id}
         /\ left' = IF user_id \in subscribed_users
                    THEN [left EXCEPT ![user_id] = "forbidden"]
                    ELSE left
    ELSE IF outcome = "error"
    THEN /\ test_mode_users' = test_mode_users \ {user_id}
         /\ UNCHANGED <<subscribed_users, left>>
    ELSE UNCHANGED <<subscribed_users, test_mode_users, left>>

\* bot.py 97-102: the except clauses around one id's fetch_user and send.
\* Forbidden removes the id from both sets; anything else is printed.
Handle(outcome, user_id) ==
    IF outcome = "forbidden"
    THEN /\ subscribed_users' = subscribed_users \ {user_id}
         /\ test_mode_users' = test_mode_users \ {user_id}
         /\ left' = IF user_id \in subscribed_users
                    THEN [left EXCEPT ![user_id] = "forbidden"]
                    ELSE left
    ELSE UNCHANGED <<subscribed_users, test_mode_users, left>>

\* The locals of a cycle and the record of what its pass has done.  They
\* are emptied when the task goes to sleep.
Cycle(t, outcomes, lines, links, order, entries) ==
    /\ fetched' = [fetched EXCEPT ![t] = outcomes]
    /\ all_status_messages' = [all_status_messages EXCEPT ![t] = lines]
    /\ slot_available_links' = [slot_available_links EXCEPT ![t] = links]
    /\ snapshot' = [snapshot EXCEPT ![t] = order]
    /\ idx' = [idx EXCEPT ![t] = IF order = <<>> THEN 0 ELSE 1]
    /\ log' = [log EXCEPT ![t] = entries]
    /\ sending' = [sending EXCEPT ![t] = NoMsg]

\* NextId without the except clause of bot.py 101-102: an error other than
\* Forbidden leaves the coroutine and the task ends.
NextIdErrorEscapes(t, entry) ==
    /\ idx' = [idx EXCEPT ![t] = idx[t] + 1]
    /\ pc' = [pc EXCEPT ![t] = IF entry.outcome = "error" THEN "done"
                               ELSE IF idx[t] < Len(snapshot[t])
                               THEN "fetch_user" ELSE "over"]
    /\ log' = [log EXCEPT ![t] = Append(log[t], entry)]
    /\ sending' = [sending EXCEPT ![t] = NoMsg]
    /\ UNCHANGED <<fetched, all_status_messages, slot_available_links,
                   snapshot>>

\* bot.py 84, 104: with entry recorded for the current id, the for loop
\* takes its next id, or the pass is over.
NextId(t, entry) ==
    /\ idx' = [idx EXCEPT ![t] = idx[t] + 1]
    /\ pc' = [pc EXCEPT ![t] = IF idx[t] < Len(snapshot[t])
                               THEN "fetch_user" ELSE "over"]
    /\ log' = [log EXCEPT ![t] = Append(log[t], entry)]
    /\ sending' = [sending EXCEPT ![t] = NoMsg]
    /\ UNCHANGED <<fetched, all_status_messages, slot_available_links,
                   snapshot>>

\* What the pass did for the id it has just finished with: the tier it found,
\* the header of the message it chose ("none" when it chose none) and how
\* the attempt ended.
Entry(msg, outcome) ==
    [id |-> msg.id, tier |-> msg.tier, header |-> msg.header,
     outcome |-> outcome]

\* ------------------------------------------------------------------- Init
Init ==
    /\ subscribed_users = {}
    /\ test_mode_users = {}
    /\ closed = FALSE
    /\ ready = 0
    /\ pc = [t \in Tasks |-> "none"]
    /\ fetched = [t \in Tasks |-> <<>>]
    /\ all_status_messages = [t \in Tasks |-> <<>>]
    /\ slot_available_links = [t \in Tasks |-> <<>>]
    /\ previous = [t \in Tasks |-> <<>>]
    /\ snapshot = [t \in Tasks |-> <<>>]
    /\ idx = [t \in Tasks |-> 0]
    /\ sending = [t \in Tasks |-> NoMsg]
    /\ log = [t \in Tasks |-> <<>>]
    /\ replied = NoCommand
    /\ left = [u \in Users |-> "no"]

\* ---------------------------------------------------------------- on_ready
\* bot.py 109-117: every ready event creates one more task; the task first
\* awaits bot.wait_until_ready().
on_ready ==
    /\ ~Blocked /\ ~closed
    /\ ready < MaxReady
    /\ ready' = ready + 1
    /\ pc' = [pc EXCEPT ![ready + 1] = "idle"]
    /\ UNCHANGED <<subscribed_users, test_mode_users, closed, fetched,
                   all_status_messages, slot_available_links, previous,
                   snapshot, idx, sending, log, replied, left>>

\* ------------------------------------------------- check_links_and_notify
\* bot.py 53: the task wakes (from wait_until_ready or asyncio.sleep) and
\* finds the bot closed: the while loop ends.  Only this test reads
\* bot.is_closed(), so the bot is taken to close when the first task sees it.
Closed(t) ==
    /\ ~Blocked
    /\ pc[t] = "idle"
    /\ closed' = TRUE
    /\ pc' = [pc EXCEPT ![t] = "done"]
    /\ UNCHANGED <<subscribed_users, test_mode_users, ready, fetched,
                   all_status_messages, slot_available_links, previous,
                   snapshot, idx, sending, log, replied, left>>

\* bot.py 104: the pass is over and the task awaits asyncio.sleep.  What
\* slot_available_links holds now is what the next cycle's bot.py 58 will
\* find and replace.
Sleep(t) ==
    /\ pc[t] = "over"
    /\ pc' = [pc EXCEPT ![t] = "idle"]
    /\ previous' = [previous EXCEPT ![t] = slot_available_links[t]]
    /\ Cycle(t, <<>>, <<>>, <<>>, <<>>, <<>>)
    /\ UNCHANGED <<subscribed_users, test_mode_users, closed, ready, replied,
                   left>>

\* bot.py 53-54, 104: the task wakes with nobody subscribed and sleeps again.
Skip(t) ==
    /\ ~Blocked /\ ~closed
    /\ pc[t] = "idle"
    /\ subscribed_users = {}
    /\ UNCHANGED vars

\* Tick without the test of bot.py 54: the targets are fetched at every
\* wake-up; with nobody subscribed the for loop of bot.py 84 has no id.
TickWithoutTest(t) ==
    /\ ~Blocked /\ ~closed
    /\ pc[t] = "idle"
    /\ \E outcomes \in [1 .. NumTargets -> FetchOutcomes] :
         LET n == Evaluated(outcomes, 1) IN
         IF n < Len(TESTFLIGHT_LINKS)
         THEN /\ pc' = [pc EXCEPT ![t] = "hung"]
              /\ Cycle(t, SubSeq(outcomes, 1, n), AllStatus(outcomes, n),
                       SlotLinks(outcomes, n), <<>>, <<>>)
         ELSE /\ pc' = [pc EXCEPT ![t] = IF subscribed_users = {}
                                         THEN "over" ELSE "fetch_user"]
              /\ \E order \in ListOf(subscribed_users) :
                   Cycle(t, outcomes, AllStatus(outcomes, n),
                         SlotLinks(outcomes, n), order, <<>>)
    /\ UNCHANGED <<subscribed_users, test_mode_users, closed, ready, replied,
                   left, previous>>

\* bot.py 53-86: the task wakes with somebody subscribed, fetches every
\* target, builds the messages, snapshots the subscribers and suspends in
\* bot.fetch_user for the first id; or a requests.get never returns.
Tick(t) ==
    /\ ~Blocked /\ ~closed
    /\ pc[t] = "idle"
    /\ subscribed_users # {}
    /\ \E outcomes \in [1 .. NumTargets -> FetchOutcomes] :
         LET n == Evaluated(outcomes, 1) IN
         IF n < Len(TESTFLIGHT_LINKS)
         THEN /\ pc' = [pc EXCEPT ![t] = "hung"]
              /\ Cycle(t, SubSeq(outcomes, 1, n), AllStatus(outcomes, n),
                       SlotLinks(outcomes, n), <<>>, <<>>)
         ELSE /\ pc' = [pc EXCEPT ![t] = "fetch_user"]
              /\ \E order \in ListOf(subscribed_users) :
                   Cycle(t, outcomes, AllStatus(outcomes, n),
                         SlotLinks(outcomes, n), order, <<>>)
    /\ UNCHANGED <<subscribed_users, test_mode_users, closed, ready, replied,
                   left, previous>>

\* bot.py 86-102: bot.fetch_user returns or raises.  For a user the message
\* is chosen and user.send is awaited, or there is nothing to send and the
\* loop goes on; without a user (falsy, or an exception) the loop goes on.
FetchUserReturn(t, outcome) ==
    /\ ~Blocked
    /\ pc[t] = "fetch_user"
    /\ LET user_id == snapshot[t][idx[t]]
           msg == MessageFor(t, user_id)
       IN  IF outcome = "user"
           THEN IF msg.header # "none"
                THEN /\ pc' = [pc EXCEPT ![t] = "send"]
                     /\ sending' = [sending EXCEPT ![t] = msg]
                     /\ UNCHANGED <<subscribed_users, test_mode_users, left,
                                    fetched, all_status_messages,
                                    slot_available_links, snapshot, idx, log>>
                ELSE /\ UNCHANGED <<subscribed_users, test_mode_users, left>>
                     /\ NextId(t, Entry(msg, "nothing"))
           ELSE /\ Handle(outcome, user_id)
                /\ NextId(t, Entry(Msg(user_id, "unknown", "none", <<>>),
                                   outcome))
    /\ UNCHANGED <<closed, ready, replied, previous>>

\* bot.py 91, 95, 97-102: user.send returns or raises.
SendReturn(t, outcome) ==
    /\ ~Blocked
    /\ pc[t] = "send"
    /\ Handle(outcome, snapshot[t][idx[t]])
    /\ NextId(t, Entry(sending[t], outcome))
    /\ UNCHANGED <<closed, ready, replied, previous>>

\* ---------------------------------------------------------------- commands
\* A handler has no await before its final ctx.send, so it is one step.  Each
\* handler is given as the store it leaves and the reply it sends, computed
\* from the store it finds; the action below applies it.
Outcome(sub, test, reply) == [sub |-> sub, test |-> test, reply |-> reply]

\* notifyResult that starts an already subscribed id afresh: its tier is
\* reset to NORMAL.
notifyResultResetsTier(user_id, dm) ==
    IF ~dm
    THEN Outcome(subscribed_users, test_mode_users, "DMOnly")
    ELSE IF user_id \in subscribed_users
    THEN Outcome(subscribed_users, test_mode_users \ {user_id},
                 "AlreadySubscribed")
    ELSE Outcome(subscribed_users \cup {user_id}, test_mode_users, "Subscribed")

\* bot.py 137-154
notifyResult(user_id, dm) ==
    IF ~dm
    THEN Outcome(subscribed_users, test_mode_users, "DMOnly")
    ELSE IF user_id \in subscribed_users
    THEN Outcome(subscribed_users, test_mode_users, "AlreadySubscribed")
    ELSE Outcome(subscribed_users \cup {user_id}, test_mode_users, "Subscribed")

\* test_modeResult without the test of bot.py 162-164.
test_modeResultNoCheck(user_id, dm) ==
    IF ~dm
    THEN Outcome(subscribed_users, test_mode_users, "none")
    ELSE IF user_id \in test_mode_users
    THEN Outcome(subscribed_users, test_mode_users \ {user_id},
                 "TestModeDisabled")
    ELSE Outcome(subscribed_users, test_mode_users \cup {user_id},
                 "TestModeEnabled")

\* bot.py 156-171
test_modeResult(user_id, dm) ==
    IF ~dm
    THEN Outcome(subscribed_users, test_mode_users, "none")
    ELSE IF user_id \notin subscribed_users
    THEN Outcome(subscribed_users, test_mode_users, "SubscribeFirst")
    ELSE IF user_id \in test_mode_users
    THEN Outcome(subscribed_users, test_mode_users \ {user_id},
                 "TestModeDisabled")
    ELSE Outcome(subscribed_users, test_mode_users \cup {user_id},
                 "TestModeEnabled")

\* stopResult without bot.py 181: the id stays in test_mode_users.
stopResultKeepsTestMode(user_id, dm) ==
    IF ~dm
    THEN Outcome(subscribed_users, test_mode_users, "none")
    ELSE IF user_id \in subscribed_users
    THEN Outcome(subscribed_users \ {user_id}, test_mode_users, "Unsubscribed")
    ELSE Outcome(subscribed_users, test_mode_users, "NotSubscribed")

\* stopResult without bot.py 180: the id only leaves test_mode_users.
stopResultKeepsSubscription(user_id, dm) ==
    IF ~dm
    THEN Outcome(subscribed_users, test_mode_users, "none")
    ELSE IF user_id \in subscribed_users
    THEN Outcome(subscribed_users, test_mode_users \ {user_id}, "Unsubscribed")
    ELSE Outcome(subscribed_users, test_mode_users, "NotSubscribed")

\* bot.py 173-185
stopResult(user_id, dm) ==
    IF ~dm
    THEN Outcome(subscribed_users, test_mode_users, "none")
    ELSE IF user_id \in subscribed_users
    THEN Outcome(subscribed_users \ {user_id}, test_mode_users \ {user_id},
                 "Unsubscribed")
    ELSE Outcome(subscribed_users, test_mode_users, "NotSubscribed")

\* A command handled: the store and the reply are the handler's; the poll
\* loop is not touched.
Command(user_id, command, result) ==
    /\ ~Blocked /\ ~closed
    /\ subscribed_users' = result.sub
    /\ test_mode_users' = result.test
    /\ replied' = [author |-> user_id, command |-> command,
                   reply |-> result.reply]
    /\ UNCHANGED <<closed, ready, pc, fetched, all_status_messages,
                   slot_available_links, previous, snapshot, idx, sending, log>>

notify(user_id, dm) ==
    /\ Command(user_id, "notify", notifyResult(user_id, dm))
    /\ left' = IF notifyResult(user_id, dm).reply = "Subscribed"
               THEN [left EXCEPT ![user_id] = "no"] ELSE left

test_mode(user_id, dm) ==
    /\ Command(user_id, "test-mode", test_modeResult(user_id, dm))
    /\ UNCHANGED left

stop(user_id, dm) ==
    /\ Command(user_id, "stop", stopResult(user_id, dm))
    /\ left' = IF stopResult(user_id, dm).reply = "Unsubscribed"
               THEN [left EXCEPT ![user_id] = "stopped"] ELSE left

\* ------------------------------------------------------------------- Next
\* The first ready event of the process.
Connect == ready = 0 /\ on_ready

PollLoop ==
    \/ \E t \in Tasks : Closed(t)
    \/ \E t \in Tasks : Skip(t)
    \/ \E t \in Tasks : Sleep(t)
    \/ \E t \in Tasks : Tick(t)
    \/ \E t \in Tasks, outcome \in FetchUserOutcomes : FetchUserReturn(t, outcome)
    \/ \E t \in Tasks, outcome \in SendOutcomes : SendReturn(t, outcome)

Commands ==
    \/ \E user_id \in Users, dm \in BOOLEAN : notify(user_id, dm)
    \/ \E user_id \in Users, dm \in BOOLEAN : test_mode(user_id, dm)
    \/ \E user_id \in Users, dm \in BOOLEAN : stop(user_id, dm)

\* The gateway connects once: one ready event, one poll loop.
Next == Connect \/ PollLoop \/ Commands

Spec == Init /\ [][Next]_vars

\* The gateway reconnects: discord.py fires the ready event again, and every
\* on_ready creates one more check_links_and_notify task.  Of the commands
\* only notify is sent here, and only while nobody is subscribed: one
\* subscriber is enough for the loops to have work.
Subscribes ==
    \E user_id \in Users : subscribed_users = {} /\ notify(user_id, TRUE)

NextReconnect == on_ready \/ PollLoop \/ Subscribes

SpecReconnect == Init /\ [][NextReconnect]_vars

\* ================================================================= claims
Dispatching(t) == pc[t] \in {"fetch_user", "send"}
InCycle(t) == pc[t] \in {"fetch_user", "send", "over"}

\* How many turns id u has had or is having in the pass of task t.
Turns(t, u) ==
    Cardinality({i \in 1 .. Len(log[t]) : log[t][i].id = u})
      + (IF Dispatching(t) /\ snapshot[t][idx[t]] = u THEN 1 ELSE 0)

\* How many status digests the pass of task t has delivered to id u.
Digests(t, u) ==
    Cardinality({i \in 1 .. Len(log[t]) :
                   /\ log[t][i].id = u
                   /\ log[t][i].header = "TestModeStatusUpdate"
                   /\ log[t][i].outcome = "ok"})

\* C1: in a cycle that found no slot (slot_found false), whatever mix of
\* full and failed fetches it saw, no message is on its way to, and none was
\* sent to, an id the pass found in NORMAL tier.
C1_NormalSilentWithoutSlot ==
    \A t \in Tasks :
        ~slot_found(t) =>
            /\ pc[t] = "send" => sending[t].tier = "VERBOSE"
            /\ \A i \in 1 .. Len(log[t]) :
                   log[t][i].tier = "NORMAL" => /\ log[t][i].header = "none"
                                                /\ log[t][i].outcome = "nothing"

\* A pass is over in a cycle that saw a full and a failed target and no slot,
\* and a subscribed NORMAL id had its turn and was sent nothing.
C1_Witness ==
    \E t \in Tasks :
        /\ pc[t] = "over"
        /\ ~slot_found(t)
        /\ "full" \in Range(fetched[t])
        /\ "fail" \in Range(fetched[t])
        /\ \E i \in 1 .. Len(log[t]) :
              /\ log[t][i].tier = "NORMAL"
              /\ log[t][i].outcome = "nothing"
              /\ log[t][i].id \in subscribed_users \ test_mode_users

\* C2 as claimed: every id the pass found in VERBOSE tier has got exactly
\* one status digest by the end of the pass.
C2_ExactlyOneDigest ==
    \A t \in Tasks :
        pc[t] = "over" =>
            \A i \in 1 .. Len(log[t]) :
                log[t][i].tier = "VERBOSE" => Digests(t, log[t][i].id) = 1

\* C2 amended: every id the pass finds in VERBOSE tier has one send of the
\* full status digest made for it, whatever the availability; no id has more
\* than one turn, hence more than one digest, in a cycle.
C2_OneDigestSendPerVerboseTurn ==
    \A t \in Tasks :
        /\ \A i \in 1 .. Len(log[t]) :
               log[t][i].tier = "VERBOSE" =>
                   /\ log[t][i].header = "TestModeStatusUpdate"
                   /\ log[t][i].outcome \in SendOutcomes
        /\ (pc[t] = "send" /\ sending[t].tier = "VERBOSE") =>
               /\ sending[t].header = "TestModeStatusUpdate"
               /\ sending[t].lines = all_status_messages[t]
        /\ \A u \in Users : Turns(t, u) <= 1 /\ Digests(t, u) <= 1

\* A pass is over in a cycle without a slot; one VERBOSE id got its digest
\* and for another the send failed.
C2_Witness ==
    \E t \in Tasks :
        /\ pc[t] = "over"
        /\ ~slot_found(t)
        /\ \E i, j \in 1 .. Len(log[t]) :
              /\ log[t][i].tier = "VERBOSE" /\ log[t][i].outcome = "ok"
              /\ log[t][j].tier = "VERBOSE" /\ log[t][j].outcome = "error"

\* C3 as claimed: the poll loop starts no send to an id whose stop command
\* has completed and who has not subscribed again since.
C3_NoSendAfterStop ==
    [][\A t \in Tasks :
          (pc[t] = "fetch_user" /\ pc'[t] = "send") =>
              left[snapshot[t][idx[t]]] # "stopped"]_vars

\* The step finishes the turn of an id of task t with the given outcome.
TurnEnds(t, outcome) ==
    /\ Dispatching(t)
    /\ Len(log'[t]) = Len(log[t]) + 1
    /\ log'[t][Len(log'[t])].outcome = outcome

\* The step starts a cycle of task t that gets as far as its snapshot.
Snapshots(t) == pc[t] = "idle" /\ pc'[t] = "fetch_user"

\* When a pass is over, every id of its snapshot has had its turn, in order.
EveryIdHadItsTurn ==
    \A t \in Tasks :
        pc[t] = "over" =>
            /\ Len(log[t]) = Len(snapshot[t])
            /\ \A i \in 1 .. Len(log[t]) : log[t][i].id = snapshot[t][i]

\* The step handles the given command (and is no step of the poll loop).
StepOf(command) ==
    /\ replied'.command = command
    /\ UNCHANGED cycleVars
    /\ <<replied, store>>' # <<replied, store>>

\* C4: a Forbidden for an id removes it from both sets; the pass still gives
\* every id of its snapshot its turn; and no cycle that starts while the id
\* is removed and has not subscribed again has the id in its snapshot.
C4_ForbiddenRemovesAndPassGoesOn ==
    /\ [][\A t \in Tasks :
            TurnEnds(t, "forbidden") =>
                LET x == snapshot[t][idx[t]] IN
                /\ x \notin subscribed_users' /\ x \notin test_mode_users'
                /\ subscribed_users' = subscribed_users \ {x}
                /\ test_mode_users' = test_mode_users \ {x}]_vars
    /\ [](\A u \in Users :
            left[u] = "forbidden" =>
                u \notin subscribed_users /\ u \notin test_mode_users)
    /\ []EveryIdHadItsTurn
    /\ [][\A t \in Tasks :
            Snapshots(t) =>
                \A u \in Range(snapshot'[t]) : left[u] # "forbidden"]_vars

\* A pass is over in which a VERBOSE id got Forbidden, is removed and still
\* away, and an id after it in the snapshot had a send made for it.
C4_Witness ==
    \E t \in Tasks :
        /\ pc[t] = "over"
        /\ \E i, j \in 1 .. Len(log[t]) :
              /\ i < j
              /\ log[t][i].outcome = "forbidden"
              /\ log[t][i].tier = "VERBOSE"
              /\ left[log[t][i].id] = "forbidden"
              /\ log[t][j].header # "none"

\* C5: a failure other than Forbidden leaves both sets as they were; no id
\* has a second turn in the same pass; the pass still gives every id of its
\* snapshot its turn; and a cycle that gets to its snapshot takes every id
\* subscribed at that moment, so the id is tried again if it is still there.
C5_OtherErrorKeepsSubscriber ==
    /\ [][\A t \in Tasks :
            (TurnEnds(t, "error") \/ TurnEnds(t, "none")) =>
                UNCHANGED store]_vars
    /\ [](\A t \in Tasks : \A u \in Users : Turns(t, u) <= 1)
    /\ []EveryIdHadItsTurn
    /\ [][\A t \in Tasks :
            Snapshots(t) => Range(snapshot'[t]) = subscribed_users]_vars

\* A pass is over in which the send to a VERBOSE id failed with another
\* error, the id is still subscribed and VERBOSE, and an id after it in the
\* snapshot had a send made for it.
C5_Witness ==
    \E t \in Tasks :
        /\ pc[t] = "over"
        /\ \E i, j \in 1 .. Len(log[t]) :
              /\ i < j
              /\ log[t][i].outcome = "error"
              /\ log[t][i].tier = "VERBOSE"
              /\ log[t][i].id \in test_mode_users
              /\ log[t][i].id \in subscribed_users
              /\ log[t][j].header # "none"

\* C6: no id is in test_mode_users without being in subscribed_users.
C6_VerboseAreSubscribed == test_mode_users \subseteq subscribed_users

\* An id the running pass found VERBOSE has stopped since, and another id
\* is VERBOSE.
C6_Witness ==
    \E t \in Tasks :
        /\ Dispatching(t)
        /\ \E i \in 1 .. Len(log[t]) :
              /\ log[t][i].tier = "VERBOSE"
              /\ left[log[t][i].id] = "stopped"
        /\ test_mode_users # {}

\* C7: stop (in a DM) by a subscribed id takes the id out of both sets and
\* out of them only; the id stays out while it has not subscribed again, and
\* no cycle that starts then has it in its snapshot; stop by an id that is
\* not subscribed changes nothing and replies "not subscribed".
C7_StopUnsubscribes ==
    /\ [](\A u \in Users :
            /\ u \in subscribed_users =>
                  stopResult(u, TRUE) =
                      Outcome(subscribed_users \ {u}, test_mode_users \ {u},
                              "Unsubscribed")
            /\ u \notin subscribed_users =>
                  stopResult(u, TRUE) =
                      Outcome(subscribed_users, test_mode_users,
                              "NotSubscribed")
            /\ left[u] = "stopped" =>
                  u \notin subscribed_users /\ u \notin test_mode_users)
    /\ [][(StepOf("stop") /\ replied'.reply # "none") =>
            LET u == replied'.author IN
            IF u \in subscribed_users
            THEN /\ replied'.reply = "Unsubscribed"
                 /\ u \notin subscribed_users' /\ u \notin test_mode_users'
            ELSE /\ replied'.reply = "NotSubscribed"
                 /\ UNCHANGED store]_vars
    /\ [][\A t \in Tasks :
            Snapshots(t) =>
                \A u \in Range(snapshot'[t]) : left[u] # "stopped"]_vars

\* An id has stopped and, stopping again, was told it is not subscribed; a
\* cycle runs for the other subscribers without it.
C7_Witness ==
    \E t \in Tasks : \E u \in Users :
        /\ left[u] = "stopped"
        /\ replied = [author |-> u, command |-> "stop",
                       reply |-> "NotSubscribed"]
        /\ Dispatching(t)
        /\ log[t] = <<>>
        /\ u \notin Range(snapshot[t])

\* C8: test-mode (in a DM) by an id that is not subscribed replies
\* "subscribe first" and leaves both sets as they were.
C8_ToggleNeedsSubscription ==
    /\ [](\A u \in Users :
            u \notin subscribed_users =>
                test_modeResult(u, TRUE) =
                    Outcome(subscribed_users, test_mode_users,
                            "SubscribeFirst"))
    /\ [][(/\ StepOf("test-mode")
            /\ replied'.reply # "none"
            /\ replied'.author \notin subscribed_users) =>
               /\ replied'.reply = "SubscribeFirst"
               /\ UNCHANGED store]_vars

\* An id that is not subscribed has just asked for test mode and was told
\* to subscribe first, while another id is VERBOSE.
C8_Witness ==
    \E u \in Users :
        /\ u \notin subscribed_users
        /\ replied = [author |-> u, command |-> "test-mode",
                       reply |-> "SubscribeFirst"]
        /\ test_mode_users # {}

\* C9: notify (in a DM) by an absent id adds the id to subscribed_users and
\* the id is not in test_mode_users afterwards; by a subscribed id it changes
\* neither set; and a second notify right after the first changes nothing.
C9_NotifyIdempotent ==
    /\ [](\A u \in Users :
            LET r == notifyResult(u, TRUE) IN
            /\ u \notin subscribed_users =>
                  /\ r.sub = subscribed_users \cup {u}
                  /\ r.test = test_mode_users
                  /\ u \notin r.test
                  /\ r.reply = "Subscribed"
            /\ u \in subscribed_users =>
                  r = Outcome(subscribed_users, test_mode_users,
                              "AlreadySubscribed"))
    /\ [][\A u \in Users :
            (/\ StepOf("notify")
             /\ replied'.author = u
             /\ replied'.reply # "DMOnly") =>
                /\ u \in subscribed_users'
                /\ (u \notin subscribed_users) => (u \notin test_mode_users')
                /\ (u \in subscribed_users) => UNCHANGED store
                /\ (notifyResult(u, TRUE).sub)' = subscribed_users'
                /\ (notifyResult(u, TRUE).test)' = test_mode_users']_vars

\* An id the running pass found VERBOSE and lost to a Forbidden has
\* subscribed again and is NORMAL now.
C9_Witness ==
    \E t \in Tasks : \E i \in 1 .. Len(log[t]) :
        LET u == log[t][i].id IN
        /\ Dispatching(t)
        /\ log[t][i].tier = "VERBOSE"
        /\ log[t][i].outcome = "forbidden"
        /\ replied = [author |-> u, command |-> "notify",
                       reply |-> "Subscribed"]
        /\ u \in subscribed_users
        /\ u \notin test_mode_users

\* C10: a cycle that gets to its dispatch has one status line per registry
\* target, in registry order, each saying what the fetch of that target gave
\* (full, slot, could not check), whichever fetches failed.
C10_OneLinePerTargetInOrder ==
    \A t \in Tasks :
        /\ Len(all_status_messages[t]) = Len(fetched[t])
        /\ InCycle(t) =>
              /\ snapshot[t] # <<>>
              /\ Len(all_status_messages[t]) = Len(TESTFLIGHT_LINKS)
        /\ \A i \in 1 .. Len(fetched[t]) :
              /\ all_status_messages[t][i][2] = TESTFLIGHT_LINKS[i]
              /\ all_status_messages[t][i][1] =
                    (CASE fetched[t][i] = "fail" -> "CouldNot"
                       [] fetched[t][i] = "full" -> "Full"
                       [] fetched[t][i] = "open" -> "Slot")

\* A pass runs in a cycle whose first fetch failed and whose last found a
\* slot.
C10_Witness ==
    \E t \in Tasks :
        /\ Dispatching(t)
        /\ fetched[t][1] = "fail"
        /\ fetched[t][Len(TESTFLIGHT_LINKS)] = "open"
        /\ all_status_messages[t][1][1] = "CouldNot"
        /\ slot_found(t)

\* The targets of the cycle of task t whose fetch gave the given outcome.
TargetsWith(t, outcome) ==
    {i \in 1 .. Len(fetched[t]) : fetched[t][i] = outcome}

\* C11: slot_found is true exactly when some target was fetched and its body
\* did not hold the full marker; a cycle whose fetches all failed or found
\* the marker has slot_found false, and slot_available_links has one line
\* for each target with a slot.
C11_SlotFoundIffSomeTargetOpen ==
    \A t \in Tasks :
        /\ slot_found(t) <=> TargetsWith(t, "open") # {}
        /\ Range(fetched[t]) \subseteq {"full", "fail"} => ~slot_found(t)
        /\ Len(slot_available_links[t]) = Cardinality(TargetsWith(t, "open"))

\* A pass runs in a cycle in which one fetch failed and another found a
\* slot: slot_found is true and the failed target has no slot line.
C11_Witness ==
    \E t \in Tasks :
        /\ Dispatching(t)
        /\ TargetsWith(t, "fail") # {}
        /\ TargetsWith(t, "open") # {}
        /\ Len(slot_available_links[t]) < Len(TESTFLIGHT_LINKS)
        /\ slot_found(t)

\* bot.py 70: the line reports a slot.
IsSlotLine(line) == line[1] = "Slot"

\* C12: a message for an id found NORMAL is the slot notification and holds
\* exactly the lines of the targets with a slot, in registry order, and no
\* full or could-not-check line; a message for an id found VERBOSE is the
\* status digest and holds the line of every target.
C12_MessageLines ==
    \A t \in Tasks :
        pc[t] = "send" =>
            IF sending[t].tier = "NORMAL"
            THEN /\ sending[t].header = "SlotAvailable"
                 /\ sending[t].lines =
                        SelectSeq(all_status_messages[t], IsSlotLine)
                 /\ \A i \in 1 .. Len(sending[t].lines) :
                        sending[t].lines[i][1] = "Slot"
                 /\ {sending[t].lines[i][2] :
                        i \in 1 .. Len(sending[t].lines)} =
                    {TESTFLIGHT_LINKS[i] : i \in TargetsWith(t, "open")}
                 /\ Len(sending[t].lines) =
                        Cardinality(TargetsWith(t, "open"))
            ELSE /\ sending[t].tier = "VERBOSE"
                 /\ sending[t].header = "TestModeStatusUpdate"
                 /\ sending[t].lines = all_status_messages[t]
                 /\ Len(sending[t].lines) = Len(TESTFLIGHT_LINKS)

\* In a cycle with a slot at one target and none at another, a VERBOSE id
\* got its digest and the slot notification for a NORMAL id is on its way.
C12_Witness ==
    \E t \in Tasks :
        /\ pc[t] = "send"
        /\ sending[t].tier = "NORMAL"
        /\ Len(sending[t].lines) >= 1
        /\ Len(sending[t].lines) < Len(all_status_messages[t])
        /\ \E i \in 1 .. Len(log[t]) :
              /\ log[t][i].tier = "VERBOSE"
              /\ log[t][i].header = "TestModeStatusUpdate"
              /\ log[t][i].outcome = "ok"

\* The steps check_links_and_notify of task t can take.
TaskStep(t) ==
    \/ Closed(t) \/ Skip(t) \/ Sleep(t) \/ Tick(t)
    \/ \E outcome \in FetchUserOutcomes : FetchUserReturn(t, outcome)
    \/ \E outcome \in SendOutcomes : SendReturn(t, outcome)

\* The event loop resumes a task whose awaited call has returned or raised,
\* and a sleeping task when its interval is over.
\* The users subscribe and unsubscribe in DMs while the one loop runs.
ComeAndGo ==
    \/ \E user_id \in Users : notify(user_id, TRUE)
    \/ \E user_id \in Users : stop(user_id, TRUE)

NextFair == Connect \/ PollLoop \/ ComeAndGo

FairSpec ==
    Init /\ [][NextFair]_vars /\ \A t \in Tasks : WF_vars(TaskStep(t))

\* C13 as claimed: a cycle that has started is never stuck in the fetch of
\* one target; the task always has a step that takes the cycle on towards
\* its dispatch and its sleep.
C13_FetchNeverStalls ==
    \A t \in Tasks :
        pc[t] \in {"hung", "fetch_user", "send", "over"} => ENABLED TaskStep(t)

\* Some target has a slot in the cycle of task t that had none in the cycle
\* before.
NewlyAvailable(t) ==
    Range(slot_available_links[t]) \ Range(previous[t]) # {}

\* C14 as claimed: a slot notification goes to an id found NORMAL only in a
\* cycle in which some target has a slot that had none in the cycle before.
C14_NotifiedOnlyWhenNewlyAvailable ==
    \A t \in Tasks :
        (pc[t] = "send" /\ sending[t].tier = "NORMAL") => NewlyAvailable(t)

\* C14 amended: a slot notification goes to an id found NORMAL only in a
\* cycle that found a slot, and in every such cycle in which fetch_user gives
\* its user, whether or not the slot was there in the cycle before.
C14_NotifiedWheneverSlotFound ==
    /\ [](\A t \in Tasks :
            (pc[t] = "send" /\ sending[t].tier = "NORMAL") =>
                /\ slot_found(t)
                /\ sending[t].lines = slot_available_links[t])
    /\ [][\A t \in Tasks :
            slot_found(t) => ~TurnEnds(t, "nothing")]_vars

\* The slot notification is on its way to a NORMAL id in a cycle whose
\* slots were all there in the cycle before.
C14_Witness ==
    \E t \in Tasks :
        /\ pc[t] = "send"
        /\ sending[t].tier = "NORMAL"
        /\ sending[t].header = "SlotAvailable"
        /\ previous[t] # <<>>
        /\ ~NewlyAvailable(t)

\* The tasks that are inside a cycle: fetching, or in their dispatch pass.
Cycling == {t \in Tasks : pc[t] \in {"hung", "fetch_user", "send", "over"}}

\* C15 as claimed: at no time are two cycles running at once, also when the
\* ready event has fired more than once.
C15_OneCycleAtATime == Cardinality(Cycling) <= 1

\* C16 as claimed: notify, stop or test-mode sent outside a DM is answered
\* with the guidance message and leaves both sets as they were.
C16_NonDMRejectedWithGuidance ==
    [][\A user_id \in Users :
          (\/ notify(user_id, FALSE)
           \/ test_mode(user_id, FALSE)
           \/ stop(user_id, FALSE)) =>
              /\ replied'.reply = "DMOnly"
              /\ UNCHANGED store]_vars

\* C17: a task that wakes with nobody subscribed fetches no target and sends
\* no message: all it does is sleep again (or end, the bot being closed);
\* a cycle is entered only with somebody subscribed, and a task that is not
\* in a cycle holds no fetch result and no message.
C17_EmptyStoreSkipsCycle ==
    /\ [][\A t \in Tasks :
            (pc[t] = "idle" /\ subscribed_users = {}) =>
                /\ pc'[t] \in {"idle", "done"}
                /\ fetched'[t] = <<>>
                /\ sending'[t] = NoMsg]_vars
    /\ [][\A t \in Tasks :
            (pc[t] = "idle" /\ fetched'[t] # <<>>) =>
                /\ subscribed_users # {}
                /\ t \in Cycling']_vars
    /\ [](\A t \in Tasks :
            t \notin Cycling =>
                /\ fetched[t] = <<>>
                /\ all_status_messages[t] = <<>>
                /\ sending[t] = NoMsg)
    /\ [](\A t \in Tasks :
            (/\ pc[t] = "idle" /\ subscribed_users = {}
             /\ ~closed /\ ~Blocked) =>
                ENABLED Skip(t) /\ ~ENABLED Tick(t))

\* The task is about to wake with nobody subscribed, after a cycle that had
\* a subscriber, who has left since.
C17_Witness ==
    \E t \in Tasks :
        /\ pc[t] = "idle"
        /\ subscribed_users = {}
        /\ ~closed
        /\ previous[t] # <<>>
        /\ \E u \in Users : left[u] # "no"
        /\ ENABLED Skip(t)

\* C18: a cycle that has got to its dispatch pass comes to its sleep,
\* whatever fetches failed and whatever the deliveries did; a sleeping task
\* of an open bot can always wake, and with somebody subscribed it does not
\* sleep for ever; the loop has ended only if the bot is closed.
C18_LoopGoesOn ==
    /\ \A t \in Tasks :
          (pc[t] \in {"fetch_user", "send", "over"}) ~> (pc[t] = "idle")
    /\ \A t \in Tasks :
          (pc[t] = "idle") ~> (pc[t] # "idle" \/ subscribed_users = {})
    /\ [](\A t \in Tasks :
            /\ (pc[t] = "idle" /\ ~closed /\ ~Blocked) =>
                   ENABLED (Skip(t) \/ Tick(t))
            /\ pc[t] = "over" => ENABLED Sleep(t)
            /\ pc[t] = "done" => closed)

\* A pass is over in a cycle in which a fetch failed, one id got Forbidden
\* and another id another error; the task is about to sleep.
C18_Witness ==
    \E t \in Tasks :
        /\ pc[t] = "over"
        /\ TargetsWith(t, "fail") # {}
        /\ \E i, j \in 1 .. Len(log[t]) :
              /\ log[t][i].outcome = "forbidden"
              /\ log[t][j].outcome = "error"
        /\ ~closed
        /\ ENABLED Sleep(t)

\* C19: a step of the poll loop adds no id to either set and leaves the tier
\* of every id that stays subscribed; if it changes the store at all, it is
\* the step in which an id's turn ends with Forbidden, and that id leaves
\* both sets; a send that succeeds leaves both sets as they were.
C19_PollLoopOnlyRemovesOnForbidden ==
    [][cycleVars' # cycleVars =>
          /\ subscribed_users' \subseteq subscribed_users
          /\ test_mode_users' = test_mode_users \cap subscribed_users'
          /\ store' # store =>
                \E t \in Tasks :
                    /\ TurnEnds(t, "forbidden")
                    /\ subscribed_users' =
                          subscribed_users \ {snapshot[t][idx[t]]}
          /\ \A t \in Tasks :
                (\/ TurnEnds(t, "ok") \/ TurnEnds(t, "error")
                 \/ TurnEnds(t, "none") \/ TurnEnds(t, "nothing")) =>
                    UNCHANGED store]_vars

\* A pass is over in which a VERBOSE id got its digest and is VERBOSE still,
\* and another id got Forbidden and is in neither set.
C19_Witness ==
    \E t \in Tasks :
        /\ pc[t] = "over"
        /\ \E i, j \in 1 .. Len(log[t]) :
              /\ log[t][i].outcome = "ok"
              /\ log[t][i].tier = "VERBOSE"
              /\ log[t][i].id \in test_mode_users
              /\ log[t][j].outcome = "forbidden"
              /\ log[t][j].id \notin subscribed_users
              /\ left[log[t][j].id] = "forbidden"

====
